---- MODULE Spec2Model ----
(***************************************************************************)
(* Model of labcore/instruments/opx/sweep.py: the RecordOPXdata collector  *)
(* (setup / _wait_for_data / collect / cleanup), the QuantumMachineContext *)
(* context manager and the module globals qmachine_mgr / qmachine.         *)
(*                                                                         *)
(* The OPX backend (result handles of the running job) is the environment: *)
(* per-stream sample counts that only grow while the job is processing,    *)
(* and a job-wide is_processing flag that falls once.  The collector       *)
(* observes the backend one call at a time; every backend call is one      *)
(* step of the model, so the backend may advance between any two calls.    *)
(***************************************************************************)
EXTENDS Integers, Sequences, FiniteSets, TLC

\* ------------------------------------------------------------------ bounds
MaxCount == 3        \* samples a stream produces at most
BatchSize == 2       \* the batchsize argument of collect()
MaxRuns == 2         \* setup() calls
MaxSessions == 3     \* quantum machines opened over a behaviour
MaxUserCleanups == 1 \* direct cleanup() calls after a run
MaxDecls == 2        \* declarations given to RecordOPXdata(...)

None == 0            \* Python's None for the qmachine reference

\* ------------------------------------------------------- column declarations
ScalarD(n) == [name |-> n, kind |-> "Scalar", i_data_stream |-> "", q_data_stream |-> ""]
TimedD(n) == [name |-> n, kind |-> "Timed", i_data_stream |-> "", q_data_stream |-> ""]
ComplexD(n) == [name |-> n, kind |-> "Complex", i_data_stream |-> "I", q_data_stream |-> "Q"]
IndepD(n) == [name |-> n, kind |-> "Indep", i_data_stream |-> "", q_data_stream |-> ""]

\* RecordOPXdata.__init__: every declaration is appended to specs; a Timed
\* declaration is followed by indep(name + "_time_points"), whose name is
\* also recorded in user_data.
TimePointsName(n) == n \o "_time_points"

\* __init__ that appends the time index before its Timed declaration.
RECURSIVE InitSpecs_IndexFirst(_)
InitSpecs_IndexFirst(ds) ==
    IF ds = <<>> THEN <<>>
    ELSE LET s == Head(ds) IN
         (IF s.kind = "Timed" THEN <<IndepD(TimePointsName(s.name)), s>> ELSE <<s>>)
             \o InitSpecs_IndexFirst(Tail(ds))

RECURSIVE InitSpecs(_)
InitSpecs(ds) ==
    IF ds = <<>> THEN <<>>
    ELSE LET s == Head(ds) IN
         (IF s.kind = "Timed" THEN <<s, IndepD(TimePointsName(s.name))>> ELSE <<s>>)
             \o InitSpecs(Tail(ds))

RECURSIVE InitUserData(_)
InitUserData(ds) ==
    IF ds = <<>> THEN <<>>
    ELSE LET s == Head(ds) IN
         (IF s.kind = "Timed" THEN <<TimePointsName(s.name)>> ELSE <<>>)
             \o InitUserData(Tail(ds))

Range(s) == {s[j] : j \in 1..Len(s)}

\* ------------------------------------------------------------ the backend
StreamNames == {"x", "y", "sig", "I", "Q"}

\* Values per sample of a stream: 0 for a scalar stream (fetch gives an
\* array of shape (n,)), T > 0 for a trace stream (shape (n, T)).
TraceLen(name) == IF name = "sig" THEN 2 ELSE 0

\* Programs and declarations the collector is run with: the declarations
\* given to RecordOPXdata(...) and the stream names of the job's result
\* handles, in the order the handles are iterated.
Configs ==
    { [decls |-> <<ScalarD("x")>>, handles |-> <<"x">>],
      [decls |-> <<ScalarD("x"), ScalarD("y")>>, handles |-> <<"x", "y">>],
      [decls |-> <<TimedD("sig")>>, handles |-> <<"sig">>],
      [decls |-> <<TimedD("x")>>, handles |-> <<"x">>],
      [decls |-> <<ComplexD("z")>>, handles |-> <<"I", "Q">>],
      [decls |-> <<ScalarD("x"), ComplexD("z")>>, handles |-> <<"x", "I", "Q">>],
      [decls |-> <<ScalarD("x"), ScalarD("bogus")>>, handles |-> <<"x">>],
      [decls |-> <<ScalarD("bogus"), ScalarD("x")>>, handles |-> <<"x">>] }

\* ------------------------------------------------------------ numpy arrays
\* A fetched value is None or an array, kept as its number of samples and
\* its shape.
NoneData == [isNone |-> TRUE, n |-> 0, shape |-> <<>>]
Array(n, shape) == [isNone |-> FALSE, n |-> n, shape |-> shape]

Min(a, b) == IF a <= b THEN a ELSE b
Max(a, b) == IF a >= b THEN a ELSE b

\* np.squeeze: drops every axis of length 1.
Squeeze(shape) == SelectSeq(shape, LAMBDA d : d # 1)

\* handle.fetch(slice(lo, hi))['value'] of a stream holding cnt samples:
\* the samples of [lo, hi) that exist.
FetchShape(name, lo, hi, cnt) ==
    LET n == Max(0, Min(hi, cnt) - lo)
    IN  IF TraceLen(name) = 0 THEN <<n>> ELSE <<n, TraceLen(name)>>

\* numpy broadcasting of two shapes for idata + 1j*qdata; <<-1>> stands for
\* the ValueError of shapes that do not broadcast.
BroadcastError == <<-1>>
RECURSIVE Broadcast(_, _)
Broadcast(a, b) ==
    IF a = <<>> THEN b
    ELSE IF b = <<>> THEN a
    ELSE LET da == a[Len(a)]
             db == b[Len(b)]
             rest == Broadcast(SubSeq(a, 1, Len(a) - 1), SubSeq(b, 1, Len(b) - 1))
         IN  IF rest = BroadcastError THEN BroadcastError
             ELSE IF da = db THEN Append(rest, da)
             ELSE IF da = 1 THEN Append(rest, db)
             ELSE IF db = 1 THEN Append(rest, da)
             ELSE BroadcastError

RECURSIVE ShapeSize(_)
ShapeSize(shape) == IF shape = <<>> THEN 1 ELSE Head(shape) * ShapeSize(Tail(shape))

\* ---------------------------------------------------------------- state
VARIABLES
    decls, built,                   \* arguments of RecordOPXdata(...); __init__ has run
    specs, user_data, handles,      \* RecordOPXdata.specs / .user_data; the job's streams
    communicator,                   \* RecordOPXdata.communicator
    qmachine_mgr, qmachine,         \* module globals
    openQMs, nOpened,               \* machines open on the OPX; machines opened so far
    collectorOpened,                \* machines the setup() calls of this collector opened
    b_state, b_self_managed, b_err, \* a second RecordOPXdata: its run, ownership, cleanup error
    inContext,                      \* inside a "with QuantumMachineContext()" block
    counts, processing,             \* backend: count_so_far per stream, is_processing
    gen,                            \* position of the collect() generator
    counter, available_points, return_data, i, phase, idata,   \* locals of collect()
    statuses, processing_l, k,      \* locals of _wait_for_data
    run, finallyRuns, err, yields, ranges, pulled,   \* history of the current run
    selfOpened, reused,             \* session the last setup() opened / found open
    userCleanups, userErr           \* direct cleanup() calls and their outcome

vars == <<decls, built, specs, user_data, handles, communicator, qmachine_mgr, qmachine,
          openQMs, nOpened, collectorOpened, b_state, b_self_managed, b_err, inContext, counts, processing, gen, counter, available_points,
          return_data, i, phase, idata, statuses, processing_l, k, run, finallyRuns,
          err, yields, ranges, pulled, selfOpened, reused, userCleanups, userErr>>

sessionVars == <<qmachine_mgr, qmachine, openQMs, nOpened, collectorOpened>>
backendVars == <<counts, processing>>
planVars == <<decls, built, specs, user_data, handles>>
otherCollector == <<b_state, b_self_managed, b_err>>
collectLocals == <<counter, available_points, return_data, i, phase, idata>>
waitLocals == <<statuses, processing_l, k>>
runHistory == <<run, finallyRuns, err, yields, ranges, pulled, selfOpened, reused>>
userVars == <<userCleanups, userErr>>

EmptyRecord == [name \in {} |-> NoneData]

\* Nothing has run yet: no setup(), no session, no job.
InitState ==
    /\ communicator = [result_handles |-> FALSE, self_managed |-> FALSE,
                       active |-> FALSE, counter |-> 0]
    /\ qmachine_mgr = FALSE
    /\ qmachine = None
    /\ openQMs = {}
    /\ nOpened = 0
    /\ collectorOpened = {}
    /\ b_state = "idle"
    /\ b_self_managed = FALSE
    /\ b_err = "none"
    /\ inContext = FALSE
    /\ counts = [s \in StreamNames |-> 0]
    /\ processing = FALSE
    /\ gen = "none"
    /\ counter = 0
    /\ available_points = 0
    /\ return_data = EmptyRecord
    /\ i = 1
    /\ phase = "main"
    /\ idata = NoneData
    /\ statuses = <<>>
    /\ processing_l = <<>>
    /\ k = 1
    /\ run = 0
    /\ finallyRuns = 0
    /\ err = "none"
    /\ yields = 0
    /\ ranges = <<>>
    /\ pulled = FALSE
    /\ selfOpened = None
    /\ reused = None
    /\ userCleanups = 0
    /\ userErr = "none"

Init ==
    /\ \E cfg \in Configs :
          /\ decls = cfg.decls
          /\ specs = InitSpecs(cfg.decls)
          /\ user_data = InitUserData(cfg.decls)
          /\ handles = cfg.handles
    /\ built = TRUE
    /\ InitState


\* ------------------------------------------------------------- the session
\* setup() lines 106-118: the collector opens a machine of its own, and
\* marks the run self managed, exactly when both globals are None.
SelfManaged(mgr, qm) == mgr = FALSE /\ qm = None

\* cleanup() that clears the globals of a self managed run without closing
\* the machine.
cleanup_KeepsOpen(self_managed, mgr, qm, open) ==
    IF mgr = FALSE
    THEN [err |-> "AttributeError", mgr |-> mgr, qm |-> qm, open |-> open]
    ELSE IF self_managed
         THEN IF qm = None
              THEN [err |-> "AttributeError", mgr |-> mgr, qm |-> qm, open |-> open]
              ELSE [err |-> "none", mgr |-> FALSE, qm |-> None, open |-> open]
         ELSE [err |-> "none", mgr |-> mgr, qm |-> qm, open |-> open]

\* cleanup() that closes the machine whoever owns it.
cleanup_ClosesAlways(self_managed, mgr, qm, open) ==
    IF mgr = FALSE \/ qm = None
    THEN [err |-> "AttributeError", mgr |-> mgr, qm |-> qm, open |-> open]
    ELSE [err |-> "none", mgr |-> FALSE, qm |-> None, open |-> open \ {qm}]

\* cleanup() lines 182-193 on the globals: list_open_quantum_machines() is
\* called on qmachine_mgr whatever the ownership, and a self managed run
\* closes the global qmachine and clears both globals.
cleanup(self_managed, mgr, qm, open) ==
    IF mgr = FALSE
    THEN [err |-> "AttributeError", mgr |-> mgr, qm |-> qm, open |-> open]
    ELSE IF self_managed
         THEN IF qm = None
              THEN [err |-> "AttributeError", mgr |-> mgr, qm |-> qm, open |-> open]
              ELSE [err |-> "none", mgr |-> FALSE, qm |-> None, open |-> open \ {qm}]
         ELSE [err |-> "none", mgr |-> mgr, qm |-> qm, open |-> open]

\* A run is in progress from setup() until the generator of collect() ends.
RunInProgress == communicator.result_handles /\ gen # "done"

\* QuantumMachineContext.__enter__: opens a machine and overwrites the
\* globals.  The with block encloses the measurement code (class docstring),
\* so it is entered and left between runs.
ContextEnter ==
    /\ ~inContext
    /\ ~RunInProgress
    /\ nOpened < MaxSessions
    /\ inContext' = TRUE
    /\ nOpened' = nOpened + 1
    /\ qmachine_mgr' = TRUE
    /\ qmachine' = nOpened + 1
    /\ openQMs' = openQMs \cup {nOpened + 1}
    /\ UNCHANGED <<collectorOpened, planVars, otherCollector, communicator, backendVars, gen,
                   collectLocals,
                   waitLocals, runHistory, userVars>>

\* QuantumMachineContext.__exit__
ContextExit ==
    /\ inContext
    /\ ~RunInProgress
    /\ inContext' = FALSE
    /\ IF qmachine # None
       THEN /\ openQMs' = openQMs \ {qmachine}
            /\ qmachine' = None
            /\ qmachine_mgr' = FALSE
       ELSE UNCHANGED <<openQMs, qmachine, qmachine_mgr>>
    /\ UNCHANGED <<nOpened, collectorOpened, planVars, otherCollector, communicator,
                   backendVars, gen, collectLocals,
                   waitLocals, runHistory, userVars>>

\* RecordOPXdata.setup: opens a machine when none is recorded, executes the
\* program (a new job: no samples yet, processing) and initialises the
\* communicator.
setup ==
    /\ gen \in {"none", "created", "done"}
    /\ run < MaxRuns
    /\ LET own == SelfManaged(qmachine_mgr, qmachine) IN
       /\ own => nOpened < MaxSessions
       /\ IF own
          THEN /\ nOpened' = nOpened + 1
               /\ qmachine_mgr' = TRUE
               /\ qmachine' = nOpened + 1
               /\ openQMs' = openQMs \cup {nOpened + 1}
               /\ collectorOpened' = collectorOpened \cup {nOpened + 1}
               /\ selfOpened' = nOpened + 1
               /\ reused' = None
          ELSE /\ qmachine # None
               /\ UNCHANGED sessionVars
               /\ selfOpened' = None
               /\ reused' = qmachine
       /\ communicator' = [result_handles |-> TRUE, self_managed |-> own,
                           active |-> TRUE, counter |-> 0]
    /\ counts' = [s \in StreamNames |-> 0]
    /\ processing' = TRUE
    /\ gen' = IF gen = "done" THEN "none" ELSE gen
    /\ run' = run + 1
    /\ finallyRuns' = 0
    /\ err' = "none"
    /\ yields' = 0
    /\ ranges' = <<>>
    /\ pulled' = FALSE
    /\ userCleanups' = 0
    /\ userErr' = "none"
    /\ UNCHANGED <<planVars, otherCollector, inContext, collectLocals, waitLocals>>

\* ------------------------------------------------------------- the backend
\* The job records one more sample on one of its streams.
Produce ==
    /\ processing
    /\ \E s \in Range(handles) :
          /\ counts[s] < MaxCount
          /\ counts' = [counts EXCEPT ![s] = @ + 1]
    /\ UNCHANGED <<processing, planVars, otherCollector, communicator, sessionVars, inContext, gen,
                   collectLocals, waitLocals, runHistory, userVars>>

\* The job ends: is_processing() is False from now on.
JobStops ==
    /\ processing
    /\ processing' = FALSE
    /\ UNCHANGED <<counts, planVars, otherCollector, communicator, sessionVars, inContext, gen,
                   collectLocals, waitLocals, runHistory, userVars>>

\* ------------------------------------------------ the collect() generator
\* The generator has ended: its frame, and the locals in it, are gone.
FrameDropped ==
    /\ counter' = 0
    /\ available_points' = 0
    /\ return_data' = EmptyRecord
    /\ i' = 1
    /\ phase' = "main"
    /\ idata' = NoneData
    /\ statuses' = <<>>
    /\ processing_l' = <<>>
    /\ k' = 1

\* The finally clause of collect(): cleanup() runs, and an error it raises
\* replaces the one that was propagating.
RunFinally(e) ==
    LET c == cleanup(communicator.self_managed, qmachine_mgr, qmachine, openQMs) IN
    /\ qmachine_mgr' = c.mgr
    /\ qmachine' = c.qm
    /\ openQMs' = c.open
    /\ UNCHANGED <<nOpened, collectorOpened>>
    /\ err' = IF c.err # "none" THEN c.err ELSE e
    /\ finallyRuns' = finallyRuns + 1
    /\ gen' = "done"
    /\ FrameDropped

\* collect(batchsize) is called: a generator object, its body not started.
collect ==
    /\ communicator.result_handles
    /\ gen = "none"
    /\ gen' = "created"
    /\ UNCHANGED <<planVars, otherCollector, communicator, sessionVars, inContext, backendVars,
                   collectLocals, waitLocals, runHistory, userVars>>

\* next() that starts an iteration whatever active is.
Pull_IgnoresActive ==
    /\ gen \in {"created", "suspended"}
    /\ pulled' = TRUE
    /\ gen' = "wait"
    /\ return_data' = EmptyRecord
    /\ counter' = communicator.counter
    /\ available_points' = 0
    /\ i' = 1
    /\ phase' = "main"
    /\ idata' = NoneData
    /\ statuses' = <<>>
    /\ processing_l' = <<>>
    /\ k' = 1
    /\ UNCHANGED <<sessionVars, finallyRuns, err>>
    /\ UNCHANGED <<planVars, otherCollector, communicator, inContext, backendVars, run,
                   yields, ranges, selfOpened, reused, userVars>>

\* next() on the generator, lines 212-225: the loop test, the locals of the
\* iteration, and the entry into _wait_for_data (lines 144-148).
Pull ==
    /\ gen \in {"created", "suspended"}
    /\ pulled' = TRUE
    /\ IF communicator.active
       THEN /\ gen' = "wait"
            /\ return_data' = EmptyRecord
            /\ counter' = communicator.counter
            /\ available_points' = 0
            /\ i' = 1
            /\ phase' = "main"
            /\ idata' = NoneData
            /\ statuses' = <<>>
            /\ processing_l' = <<>>
            /\ k' = 1
            /\ UNCHANGED <<sessionVars, finallyRuns, err>>
       ELSE RunFinally("none")
    /\ UNCHANGED <<planVars, otherCollector, communicator, inContext, backendVars, run, yields, ranges,
                   selfOpened, reused, userVars>>

\* close() on the generator: GeneratorExit is raised at the yield and the
\* finally clause runs; a generator whose body never started just ends.
Close ==
    /\ gen \in {"created", "suspended"}
    /\ IF gen = "suspended"
       THEN RunFinally("none")
       ELSE /\ gen' = "done"
            /\ FrameDropped
            /\ UNCHANGED <<sessionVars, finallyRuns, err>>
    /\ UNCHANGED <<planVars, otherCollector, communicator, inContext, backendVars, run, yields, ranges,
                   pulled, selfOpened, reused, userVars>>

\* Lines 161-167: the status of a handle of a processing job.
PollStatus_AnyNew(current_datapoint, cnt, batchsize) == current_datapoint - cnt > 0

PollStatus(current_datapoint, cnt, batchsize) == current_datapoint - cnt >= batchsize

\* The status of a handle when a stopped job is not taken as ready.
HandleStatus_StoppedNotReady(is_processing, current_datapoint, cnt, batchsize) ==
    PollStatus(current_datapoint, cnt, batchsize)

\* Lines 157-169: the status appended for one handle.
HandleStatus(is_processing, current_datapoint, cnt, batchsize) ==
    IF is_processing THEN PollStatus(current_datapoint, cnt, batchsize) ELSE TRUE

\* _wait_for_data, lines 153-174: one handle is polled; after the last
\* handle of a round the lists are evaluated.  count_so_far() and
\* is_processing() are read in one step: while the job is processing the
\* pair is the one an atomic read at the count's instant gives, and once it
\* is not the count is not used.
Poll ==
    /\ gen = "wait"
    /\ LET handle == handles[k]
           current_datapoint == counts[handle]
           st == HandleStatus(processing, current_datapoint, counter, BatchSize)
           sts == Append(statuses, st)
           prs == Append(processing_l, processing)
       IN  IF k < Len(handles)
           THEN /\ statuses' = sts
                /\ processing_l' = prs
                /\ k' = k + 1
                /\ UNCHANGED <<gen, communicator>>
           ELSE /\ communicator' = IF TRUE \notin Range(prs)
                                   THEN [communicator EXCEPT !.active = FALSE]
                                   ELSE communicator
                /\ IF FALSE \notin Range(sts)
                   THEN /\ gen' = "assemble"
                        /\ statuses' = sts
                        /\ processing_l' = prs
                        /\ k' = k
                   ELSE /\ gen' = "wait"
                        /\ statuses' = <<>>
                        /\ processing_l' = <<>>
                        /\ k' = 1
    /\ UNCHANGED <<planVars, otherCollector, sessionVars, inContext, backendVars, collectLocals,
                   runHistory, userVars>>


\* get_data_from_handle, lines 227-233: None when the range is empty, else
\* the squeezed samples of [counter, up_to) the stream holds.
get_data_from_handle(name, up_to) ==
    IF up_to = counter
    THEN NoneData
    ELSE Array(Max(0, Min(up_to, counts[name]) - counter),
               Squeeze(FetchShape(name, counter, up_to, counts[name])))

\* handle.wait_for_values(up_to) returns once the stream holds up_to values
\* or the job has stopped; it is not called for an empty range.
WaitForValues(name, up_to) ==
    up_to = counter \/ counts[name] >= up_to \/ ~processing

\* result_handle.get(name) is None for a name the job has no stream for.
HandleMissing(name) == name \notin Range(handles)

Put(rd, name, v) ==
    [nm \in DOMAIN rd \cup {name} |-> IF nm = name THEN v ELSE rd[nm]]

\* Lines 269-278: the time index of a Timed column, from the shape of its
\* data: arange(1, shape[-1] + 1), tiled shape[0] times and reshaped to
\* (shape[0], -1) for 2-D data.
TimePoints(shape) ==
    IF shape = <<>>
    THEN [err |-> "IndexError", shape |-> <<>>]
    ELSE LET tvals == shape[Len(shape)] IN
         IF Len(shape) = 1
         THEN [err |-> "none", shape |-> <<tvals>>]
         ELSE IF Len(shape) = 2
              THEN IF shape[1] = 0
                   THEN [err |-> "ValueError", shape |-> <<>>]
                   ELSE [err |-> "none",
                         shape |-> <<shape[1], (tvals * shape[1]) \div shape[1]>>]
              ELSE [err |-> "NotImplementedError", shape |-> <<>>]

\* Line 280: the counter of the next iteration.
NextCounter_NoAdvance(cnt, avail) == cnt

NextCounter(cnt, avail) == avail

\* Line 280 on the communicator.
Yielded_Reactivates(c, cnt, avail) ==
    [c EXCEPT !.counter = NextCounter(cnt, avail), !.active = TRUE]

Yielded(c, cnt, avail) == [c EXCEPT !.counter = NextCounter(cnt, avail)]

\* The end of the for loop body: the next plan entry, or lines 280-281
\* after the last one (counter advances, the Record is yielded).  ranges
\* keeps the range [counter, available_points) each iteration fetched.

Advance(rd, avail) ==
    /\ return_data' = rd
    /\ available_points' = avail
    /\ phase' = "main"
    /\ idata' = NoneData
    /\ UNCHANGED <<counter, sessionVars, finallyRuns, err>>
    /\ ranges' = IF i = 1 THEN Append(ranges, <<counter, avail>>) ELSE ranges
    /\ IF i = Len(specs)
       THEN /\ communicator' = Yielded(communicator, counter, avail)
            /\ gen' = "suspended"
            /\ yields' = yields + 1
            /\ i' = i
            /\ statuses' = <<>>
            /\ processing_l' = <<>>
            /\ k' = 1
       ELSE /\ i' = i + 1
            /\ UNCHANGED <<communicator, gen, yields, waitLocals>>

\* An exception leaves the loop through the finally clause.
Raise(e) ==
    /\ RunFinally(e)
    /\ UNCHANGED <<communicator, yields, ranges>>

\* Lines 236-241: a Complex entry, up to the fetch of its I stream.
AssembleComplexI ==
    /\ gen = "assemble"
    /\ specs[i].kind = "Complex"
    /\ phase = "main"
    /\ LET iname == specs[i].i_data_stream
           up_to == IF i = 1 /\ ~HandleMissing(iname)
                    THEN counts[iname] ELSE available_points
       IN  IF HandleMissing(iname) /\ (i = 1 \/ up_to # counter)
           THEN Raise("AttributeError")
           ELSE /\ WaitForValues(iname, up_to)
                /\ available_points' = up_to
                /\ idata' = get_data_from_handle(iname, up_to)
                /\ phase' = "q"
                /\ UNCHANGED <<communicator, sessionVars, gen, counter, return_data, i,
                               finallyRuns, err, yields, ranges, waitLocals>>
    /\ UNCHANGED <<planVars, otherCollector, inContext, backendVars, run, pulled,
                   selfOpened, reused, userVars>>

\* Lines 242-255: the fetch of the Q stream and the combination.
AssembleComplexQ ==
    /\ gen = "assemble"
    /\ specs[i].kind = "Complex"
    /\ phase = "q"
    /\ LET qname == specs[i].q_data_stream
           up_to == available_points
       IN  IF HandleMissing(qname) /\ up_to # counter
           THEN Raise("AttributeError")
           ELSE /\ WaitForValues(qname, up_to)
                /\ LET qdata == get_data_from_handle(qname, up_to)
                       sh == Broadcast(idata.shape, qdata.shape)
                   IN  IF ~qdata.isNone /\ ~idata.isNone
                       THEN IF sh = BroadcastError
                            THEN Raise("ValueError")
                            ELSE Advance(Put(return_data, specs[i].name,
                                             Array(ShapeSize(sh), sh)), up_to)
                       ELSE Advance(return_data, up_to)
    /\ UNCHANGED <<planVars, otherCollector, inContext, backendVars, run, pulled,
                   selfOpened, reused, userVars>>

\* A name of user_data is tested against the result handles as well.
AssembleSkip_LooksUp ==
    /\ gen = "assemble"
    /\ specs[i].kind # "Complex"
    /\ specs[i].name \in Range(user_data)
    /\ IF specs[i].name \notin Range(handles)
       THEN Raise("RuntimeError")
       ELSE Advance(return_data, available_points)
    /\ UNCHANGED <<planVars, otherCollector, inContext, backendVars, run, pulled,
                   selfOpened, reused, userVars>>

\* Lines 257-258: a name of user_data is skipped.
AssembleSkip ==
    /\ gen = "assemble"
    /\ specs[i].kind # "Complex"
    /\ specs[i].name \in Range(user_data)
    /\ Advance(return_data, available_points)
    /\ UNCHANGED <<planVars, otherCollector, inContext, backendVars, run, pulled,
                   selfOpened, reused, userVars>>

\* The missing name is passed over like a name of user_data.
AssembleMissing_Skips ==
    /\ gen = "assemble"
    /\ specs[i].kind # "Complex"
    /\ specs[i].name \notin Range(user_data)
    /\ specs[i].name \notin Range(handles)
    /\ Advance(return_data, available_points)
    /\ UNCHANGED <<planVars, otherCollector, inContext, backendVars, run, pulled,
                   selfOpened, reused, userVars>>

\* Lines 260-261: a name the result handles do not have.
AssembleMissing ==
    /\ gen = "assemble"
    /\ specs[i].kind # "Complex"
    /\ specs[i].name \notin Range(user_data)
    /\ specs[i].name \notin Range(handles)
    /\ Raise("RuntimeError")
    /\ UNCHANGED <<planVars, otherCollector, inContext, backendVars, run, pulled,
                   selfOpened, reused, userVars>>

\* Lines 263-278: any other entry is fetched, and a Timed one gets its
\* time index.
AssembleFetch ==
    /\ gen = "assemble"
    /\ specs[i].kind # "Complex"
    /\ specs[i].name \notin Range(user_data)
    /\ specs[i].name \in Range(handles)
    /\ LET name == specs[i].name
           up_to == IF i = 1 THEN counts[name] ELSE available_points
           data == get_data_from_handle(name, up_to)
           rd == Put(return_data, name, data)
           tp == TimePoints(data.shape)
       IN  /\ WaitForValues(name, up_to)
           /\ IF specs[i].kind = "Timed" /\ ~data.isNone
              THEN IF tp.err # "none"
                   THEN Raise(tp.err)
                   ELSE Advance(Put(rd, TimePointsName(name), Array(data.n, tp.shape)),
                                up_to)
              ELSE Advance(rd, up_to)
    /\ UNCHANGED <<planVars, otherCollector, inContext, backendVars, run, pulled,
                   selfOpened, reused, userVars>>

\* cleanup() called by the user once the generator has ended.
UserCleanup ==
    /\ gen = "done"
    /\ userCleanups < MaxUserCleanups
    /\ LET c == cleanup(communicator.self_managed, qmachine_mgr, qmachine, openQMs) IN
       /\ qmachine_mgr' = c.mgr
       /\ qmachine' = c.qm
       /\ openQMs' = c.open
       /\ userErr' = c.err
    /\ userCleanups' = userCleanups + 1
    /\ UNCHANGED <<nOpened, collectorOpened, planVars, otherCollector, communicator,
                   inContext, backendVars, gen,
                   collectLocals, waitLocals, runHistory>>

Next ==
    \/ ContextEnter
    \/ ContextExit
    \/ setup
    \/ Produce
    \/ JobStops
    \/ collect
    \/ Pull
    \/ Close
    \/ Poll
    \/ AssembleComplexI
    \/ AssembleComplexQ
    \/ AssembleSkip
    \/ AssembleMissing
    \/ AssembleFetch
    \/ UserCleanup

Spec == Init /\ [][Next]_vars

\* ------------------------------------------------ a consumer that iterates
\* "for record in collector.collect(batchsize)": the generator is pulled
\* until it ends and is never closed early.  The interpreter runs the
\* generator's next step whenever it has one, and a job that was started
\* runs to its end: weak fairness on the steps of the generator and on
\* JobStops.  Nothing obliges the job to record further samples.
NextIterating ==
    \/ ContextEnter
    \/ ContextExit
    \/ setup
    \/ Produce
    \/ JobStops
    \/ collect
    \/ Pull
    \/ Poll
    \/ AssembleComplexI
    \/ AssembleComplexQ
    \/ AssembleSkip
    \/ AssembleMissing
    \/ AssembleFetch
    \/ UserCleanup

Iterate ==
    /\ WF_vars(Pull)
    /\ WF_vars(Poll)
    /\ WF_vars(AssembleComplexI)
    /\ WF_vars(AssembleComplexQ)
    /\ WF_vars(AssembleSkip)
    /\ WF_vars(AssembleMissing)
    /\ WF_vars(AssembleFetch)

SpecIterating == Init /\ [][NextIterating]_vars /\ Iterate /\ WF_vars(JobStops)

\* ---------------------------------- a second collector in the same process
\* Another RecordOPXdata instance shares the module globals qmachine_mgr and
\* qmachine.  Of its run only the calls that touch the globals are kept: its
\* setup() and the cleanup() that ends its iteration.
B_setup ==
    /\ b_state = "idle"
    /\ LET own == SelfManaged(qmachine_mgr, qmachine) IN
       /\ own => nOpened < MaxSessions
       /\ IF own
          THEN /\ nOpened' = nOpened + 1
               /\ qmachine_mgr' = TRUE
               /\ qmachine' = nOpened + 1
               /\ openQMs' = openQMs \cup {nOpened + 1}
               /\ UNCHANGED collectorOpened
          ELSE /\ qmachine # None
               /\ UNCHANGED sessionVars
       /\ b_self_managed' = own
    /\ b_state' = "running"
    /\ b_err' = "none"
    /\ UNCHANGED <<planVars, communicator, inContext, backendVars, gen, collectLocals,
                   waitLocals, runHistory, userVars>>

B_cleanup ==
    /\ b_state = "running"
    /\ LET c == cleanup(b_self_managed, qmachine_mgr, qmachine, openQMs) IN
       /\ qmachine_mgr' = c.mgr
       /\ qmachine' = c.qm
       /\ openQMs' = c.open
       /\ b_err' = c.err
    /\ b_state' = "done"
    /\ UNCHANGED <<nOpened, collectorOpened, b_self_managed, planVars, communicator,
                   inContext, backendVars, gen, collectLocals, waitLocals, runHistory,
                   userVars>>

NextShared ==
    \/ setup
    \/ Produce
    \/ JobStops
    \/ collect
    \/ Pull
    \/ Close
    \/ Poll
    \/ AssembleComplexI
    \/ AssembleComplexQ
    \/ AssembleSkip
    \/ AssembleMissing
    \/ AssembleFetch
    \/ B_setup
    \/ B_cleanup

SpecShared == Init /\ [][NextShared]_vars

\* ------------------------------------------------- RecordOPXdata.__init__
\* Declarations RecordOPXdata(...) is constructed from: every list of at
\* most MaxDecls declarations over three names and the three kinds.
DeclNames == {"x", "sig", "sig_time_points"}
DeclUniverse ==
    {ScalarD(n) : n \in DeclNames} \cup {TimedD(n) : n \in DeclNames}
        \cup {ComplexD(n) : n \in DeclNames}

RECURSIVE DeclLists(_)
DeclLists(len) ==
    IF len = 0 THEN {<<>>}
    ELSE DeclLists(len - 1)
             \cup {Append(l, d) : l \in {m \in DeclLists(len - 1) : Len(m) = len - 1},
                                  d \in DeclUniverse}

InitDecls ==
    /\ decls \in DeclLists(MaxDecls)
    /\ built = FALSE
    /\ specs = <<>>
    /\ user_data = <<>>
    /\ handles = <<>>
    /\ InitState

\* RecordOPXdata.__init__(*specs), lines 86-97: it has no failing path.
Construct ==
    /\ ~built
    /\ built' = TRUE
    /\ specs' = InitSpecs(decls)
    /\ user_data' = InitUserData(decls)
    /\ UNCHANGED <<decls, handles, otherCollector, communicator, sessionVars, inContext,
                   backendVars, gen, collectLocals, waitLocals, runHistory, userVars>>

SpecInit == InitDecls /\ [][Construct]_vars


\* ------------------------------------------------------------------ claims

\* C1: within a run the counter of the communicator never decreases from
\* one step to the next, and the ranges [counter, available_points) that
\* successive iterations fetched are ordered: each starts at or after the
\* end of every earlier one, so no index is fetched twice.
RangesOrdered(r) ==
    /\ \A a \in 1..Len(r) : r[a][1] <= r[a][2]
    /\ \A a, b \in 1..Len(r) : a < b => r[a][2] <= r[b][1]

C1_CounterMonotone ==
    [][ /\ run' = run => communicator'.counter >= communicator.counter
        /\ RangesOrdered(ranges') ]_vars

C1_Witness ==
    /\ Len(ranges) >= 2
    /\ ranges[1][2] > ranges[1][1]
    /\ ranges[2][2] > ranges[2][1]
    /\ communicator.counter = ranges[2][2]


\* C2: whenever the generator of collect() has ended, whichever way (pulled
\* to exhaustion, closed early, also before the first pull, or an error in
\* an iteration), cleanup() has run exactly once in that run.
C2_CleanupOncePerRun == gen = "done" => finallyRuns = 1

\* C3: a cleanup() called after the run's cleanup() has completed without
\* error, the session references being as that cleanup left them (a reused
\* session still recorded), returns without error and changes neither the
\* globals nor the open machines.
C3_CleanupIdempotent ==
    [][ ( /\ userCleanups' = userCleanups + 1
          /\ finallyRuns = 1
          /\ err = "none"
          /\ (communicator.self_managed \/ qmachine_mgr = TRUE) )
        => ( /\ userErr' = "none"
             /\ UNCHANGED <<qmachine, qmachine_mgr, openQMs>> ) ]_vars

C5_ReusedSessionUntouched ==
    [][ inContext' = inContext =>
        /\ (run' # run /\ ~(qmachine = None /\ qmachine_mgr = FALSE))
            => ( /\ ~communicator'.self_managed
                 /\ reused' = qmachine
                 /\ UNCHANGED <<qmachine, qmachine_mgr, openQMs>> )
        /\ (run' = run /\ reused # None /\ qmachine = reused)
            => UNCHANGED <<qmachine, qmachine_mgr, openQMs>>
        /\ (reused # None /\ reused \in openQMs) => reused \in openQMs' ]_vars

C5_Witness ==
    /\ gen = "done"
    /\ finallyRuns = 1
    /\ userCleanups = 1
    /\ reused # None
    /\ ~communicator.self_managed
    /\ reused \in openQMs
    /\ qmachine = reused


\* C6: in every yielded Record, a Timed column that is present comes with
\* its "<name>_time_points" column, of the same shape as the data, also in
\* an iteration without new samples.
C6_TimedPaired ==
    gen = "suspended" =>
        \A j \in 1..Len(specs) :
            (specs[j].kind = "Timed" /\ specs[j].name \in DOMAIN return_data)
            => /\ TimePointsName(specs[j].name) \in DOMAIN return_data
               /\ return_data[TimePointsName(specs[j].name)].shape
                      = return_data[specs[j].name].shape

\* C7: when the I or the Q stream of a Complex column gave no samples for
\* [counter, available_points), the iteration raises no error and the
\* Record it builds does not hold the column.
C7_ComplexOmitted ==
    [][ ( /\ gen = "assemble"
          /\ specs[i].kind = "Complex"
          /\ phase = "q"
          /\ phase' = "main"
          /\ \/ idata.n = 0
             \/ get_data_from_handle(specs[i].q_data_stream, available_points).n = 0 )
        => ( /\ gen' # "done"
             /\ specs[i].name \notin DOMAIN return_data' ) ]_vars

\* C8: in every yielded Record each column holds available_points - counter
\* samples.
C8_SameLength ==
    gen = "suspended" =>
        \A nm \in DOMAIN return_data :
            return_data[nm].n = available_points - counter

\* C9 (as claimed): with a declared column, neither synthetic nor Complex,
\* that the job has no stream for, collect() never polls for a batch nor
\* fetches a column, yields no Record, and its first pull ends with the
\* missing-stream error and one cleanup().
HasMissingColumn ==
    \E j \in 1..Len(specs) :
        /\ specs[j].kind # "Complex"
        /\ specs[j].name \notin Range(user_data)
        /\ specs[j].name \notin Range(handles)

FirstStream ==
    IF specs[1].kind = "Complex" THEN specs[1].i_data_stream ELSE specs[1].name

Exhausted ==
    /\ gen = "done"
    /\ pulled
    /\ finallyRuns = 1
    /\ err = "none"
    /\ ~communicator.active

C10_ExhaustionCoversAll ==
    Exhausted =>
        /\ Len(ranges) >= 1
        /\ ranges[1][1] = 0
        /\ \A a \in 1..(Len(ranges) - 1) : ranges[a][2] = ranges[a + 1][1]
        /\ ranges[Len(ranges)][2] = counts[FirstStream]
        /\ communicator.counter = counts[FirstStream]

C10_Witness ==
    /\ Exhausted
    /\ Len(ranges) = 2
    /\ ranges[1] = <<0, BatchSize>>
    /\ ranges[2][2] > BatchSize
    /\ communicator.counter = counts[FirstStream]


C13_ReadyMeansBatch ==
    gen = "assemble" =>
        /\ Len(statuses) = Len(handles)
        /\ Len(processing_l) = Len(handles)
        /\ \A j \in 1..Len(handles) :
              processing_l[j] => counts[handles[j]] - counter >= BatchSize

C13_Witness ==
    /\ gen = "assemble"
    /\ Len(handles) >= 2
    /\ \A j \in 1..Len(handles) : processing_l[j]
    /\ \E j \in 1..Len(handles) : counts[handles[j]] - counter > BatchSize

C16_OnlyWaiterClearsActive ==
    [][ (run' = run /\ communicator'.active # communicator.active)
        => (gen = "wait" /\ communicator.active /\ ~communicator'.active) ]_vars

C16_Witness ==
    /\ gen = "suspended"
    /\ ~communicator.active
    /\ yields = 2

\* C17: the step of an iteration at a plan entry named in user_data raises
\* nothing and changes neither the Record nor available_points, whether or
\* not the job has a stream of that name.
C17_SyntheticNotLookedUp ==
    [][ ( /\ gen = "assemble"
          /\ specs[i].kind # "Complex"
          /\ specs[i].name \in Range(user_data)
          /\ (i' # i \/ gen' # gen) )
        => ( /\ gen' # "done"
             /\ err' = "none"
             /\ return_data' = return_data
             /\ available_points' = available_points ) ]_vars

C17_Witness ==
    /\ gen = "suspended"
    /\ \E nm \in Range(user_data) :
          nm \notin Range(handles) /\ nm \in DOMAIN return_data

\* C18: every yielded Record covers a non-empty range and maps each of its
\* columns to an array with samples.
C18_RecordHasData ==
    gen = "suspended" =>
        /\ available_points > counter
        /\ \A nm \in DOMAIN return_data :
              ~return_data[nm].isNone /\ return_data[nm].n > 0

\* C19: while a run of this collector that reused a session at setup() has
\* not ended, that session is open and is the one the globals record; and
\* the cleanup() that ends such a run raises nothing.
C19_ReusedSessionKept ==
    /\ (communicator.result_handles /\ gen # "done" /\ reused # None)
        => (reused \in openQMs /\ qmachine = reused /\ qmachine_mgr)
    /\ (gen = "done" /\ finallyRuns = 1 /\ reused # None)
        => err # "AttributeError"

\* C20: when the cleanup() of a run has completed, no session opened by a
\* setup() of this collector is open, and self_managed was true in that
\* cleanup exactly when the session recorded in the globals was opened by
\* this collector.
C20_OpenedSessionsClosed ==
    [][ finallyRuns' = finallyRuns + 1
        => ( /\ collectorOpened \cap openQMs' = {}
             /\ communicator.self_managed <=> qmachine \in collectorOpened ) ]_vars

\* C12: a collector is never built from declarations whose resolved columns
\* share a name: the plan of a built collector has no two entries of the
\* same name.
DuplicateNames(plan) ==
    \E a, b \in 1..Len(plan) : a < b /\ plan[a].name = plan[b].name

C12_DuplicatesRejected == built => ~DuplicateNames(specs)

\* C14 (as claimed): in the plan of a built collector every Timed entry is
\* immediately preceded by its "<name>_time_points" column, whose name is
\* in user_data.
C14_IndexBeforeTimed ==
    built =>
        \A j \in 1..Len(specs) :
            specs[j].kind = "Timed"
            => /\ j > 1
               /\ specs[j - 1] = IndepD(TimePointsName(specs[j].name))
               /\ TimePointsName(specs[j].name) \in Range(user_data)

\* C14 (amended): every Timed entry is immediately followed by its
\* "<name>_time_points" column, whose name is in user_data, and the plan
\* without the columns that follow a Timed entry is the list of
\* declarations, in its order.
RECURSIVE Declared(_)
Declared(plan) ==
    IF plan = <<>> THEN <<>>
    ELSE IF Head(plan).kind = "Timed"
         THEN <<Head(plan)>> \o Declared(Tail(Tail(plan)))
         ELSE <<Head(plan)>> \o Declared(Tail(plan))

C14_IndexAfterTimed ==
    built =>
        /\ \A j \in 1..Len(specs) :
              specs[j].kind = "Timed"
              => /\ j < Len(specs)
                 /\ specs[j + 1] = IndepD(TimePointsName(specs[j].name))
                 /\ TimePointsName(specs[j].name) \in Range(user_data)
        /\ Declared(specs) = decls
        /\ \A nm \in Range(user_data) :
              \E j \in 1..Len(decls) :
                  decls[j].kind = "Timed" /\ nm = TimePointsName(decls[j].name)

C14_Witness ==
    /\ built
    /\ Len(decls) = 2
    /\ decls[1].kind = "Scalar"
    /\ decls[2].kind = "Timed"
    /\ Len(specs) = 3
    /\ specs[3].kind = "Indep"

====
